---- MODULE Spec2Model ----
(***************************************************************************)
(* Model of nfc_osc_client.py: the per-reader tag activation state machine *)
(* (NfcReader), the outbound OSC command channel (ChromatikOcsClient) and  *)
(* the poll cycle that drives them (NfcController.poll_readers, __main__). *)
(*                                                                         *)
(* One action models one whole handler: a poll of one reader (including    *)
(* the on-connect callback tag_detected and any command it sends), the     *)
(* end-of-cycle connection retry, the start-up wait loop, the signal       *)
(* handler and the shutdown.                                               *)
(*                                                                         *)
(* NfcReader.last_tag / current_tag are written by update() and read only  *)
(* inside the same callback; the tag is therefore an argument of the       *)
(* operators below and not a state variable.                               *)
(***************************************************************************)
EXTENDS Integers, Sequences, FiniteSets, TLC

\* ------------------------------------------------------------------ bounds
\* Largest number of readers bound at start-up that the model explores.
MaxReaders == 3

\* poll_readers refuses to run with fewer readers than this.
MinReaders == 3

\* ------------------------------------------------------------ tag registry
\* Python None, where a tag object (nfc_tags) is absent. A tag object is
\* modelled by what get_pattern() and is_one_shot() return for it.
NoneTag == [kind |-> "None", pattern |-> "", one_shot |-> FALSE]

\* The tags a reader can report: identifier bytes, and an optional NDEF text
\* record (ndef = FALSE models tag.ndef is None).
Tags ==
  { [identifier |-> <<161, 178>>, ndef |-> FALSE, header_valid |-> FALSE,
     text_pattern |-> "", text_one_shot |-> FALSE],
    [identifier |-> <<195, 212>>, ndef |-> FALSE, header_valid |-> FALSE,
     text_pattern |-> "", text_one_shot |-> FALSE],
    [identifier |-> <<255, 255>>, ndef |-> FALSE, header_valid |-> FALSE,
     text_pattern |-> "", text_one_shot |-> FALSE],
    [identifier |-> <<14, 14>>, ndef |-> TRUE, header_valid |-> TRUE,
     text_pattern |-> "fire", text_one_shot |-> FALSE],
    [identifier |-> <<161, 178>>, ndef |-> TRUE, header_valid |-> FALSE,
     text_pattern |-> "", text_one_shot |-> FALSE] }

\* A placeholder tag value carried by poll results that have no tag.
NoRawTag == [identifier |-> <<>>, ndef |-> FALSE, header_valid |-> FALSE,
             text_pattern |-> "", text_one_shot |-> FALSE]

\* binascii.hexlify: two lower-case hexadecimal digits per byte.
HexDigits == <<"0", "1", "2", "3", "4", "5", "6", "7", "8", "9",
               "a", "b", "c", "d", "e", "f">>

hexlify(bytes) ==
  [i \in 1..(2 * Len(bytes)) |->
     IF i % 2 = 1 THEN HexDigits[(bytes[(i + 1) \div 2] \div 16) + 1]
                  ELSE HexDigits[(bytes[i \div 2] % 16) + 1]]

\* str.upper on a string of hexadecimal digits.
upper(s) ==
  [i \in 1..Len(s) |->
     CASE s[i] = "a" -> "A" [] s[i] = "b" -> "B" [] s[i] = "c" -> "C"
       [] s[i] = "d" -> "D" [] s[i] = "e" -> "E" [] s[i] = "f" -> "F"
       [] OTHER -> s[i]]

\* tag_id of line 88.
tag_id(tag) == upper(hexlify(tag.identifier))

\* The trigger registry loaded from configs/elder_mother_tags.json: tag id ->
\* <<pattern name, one-shot flag, extra parameter>>.
tag_dictionary ==
  ( <<"A", "1", "B", "2">> :> <<"fire", FALSE, 0>> ) @@
  ( <<"C", "3", "D", "4">> :> <<"spark", TRUE, 0>> )

\* nfc_tags.HardCodedTag(tag, values[0], values[1], values[2]).
HardCodedTag(tag, v0, v1, v2) ==
  [kind |-> "Tag", pattern |-> v0, one_shot |-> v1]

\* nfc_tags.CustomTextTag(tag): the trigger is decoded from the NDEF text.
CustomTextTag(tag) ==
  [kind |-> "Tag", pattern |-> tag.text_pattern,
   one_shot |-> tag.text_one_shot]

is_header_valid(tag) == tag.header_valid

get_pattern(t) == t.pattern

is_one_shot(t) == t.one_shot

\* -------------------------------------------------------------- NfcReader
\* NfcReader.__init__: no active tag, not activated, LED on, device open.
NewReader ==
  [active_tag |-> NoneTag, activated |-> FALSE, led_enabled |-> TRUE,
   clf_open |-> TRUE]

set_led(rd, state) == [rd EXCEPT !.led_enabled = state]

\* Variant: the check that a tag is already active is missing.
is_current_tag_new_and_valid_unguarded(rd, tag) ==
  IF tag.ndef
    THEN IF is_header_valid(tag)
           THEN [reader |-> [rd EXCEPT !.active_tag = CustomTextTag(tag)],
                 ret |-> TRUE]
           ELSE [reader |-> rd, ret |-> FALSE]
    ELSE IF tag_id(tag) \in DOMAIN tag_dictionary
           THEN [reader |->
                   [rd EXCEPT !.active_tag =
                      HardCodedTag(tag, tag_dictionary[tag_id(tag)][1],
                                   tag_dictionary[tag_id(tag)][2],
                                   tag_dictionary[tag_id(tag)][3])],
                 ret |-> TRUE]
           ELSE [reader |-> rd, ret |-> FALSE]

\* Variant: a tag whose NDEF header is invalid falls through to the
\* dictionary lookup of its identifier.
is_current_tag_new_and_valid_fallthrough(rd, tag) ==
  IF rd.activated
    THEN [reader |-> set_led(rd, ~rd.led_enabled), ret |-> FALSE]
    ELSE IF tag.ndef /\ is_header_valid(tag)
      THEN [reader |-> [rd EXCEPT !.active_tag = CustomTextTag(tag)],
            ret |-> TRUE]
      ELSE IF tag_id(tag) \in DOMAIN tag_dictionary
             THEN [reader |->
                     [rd EXCEPT !.active_tag =
                        HardCodedTag(tag, tag_dictionary[tag_id(tag)][1],
                                     tag_dictionary[tag_id(tag)][2],
                                     tag_dictionary[tag_id(tag)][3])],
                   ret |-> TRUE]
             ELSE [reader |-> rd, ret |-> FALSE]

\* Variant: a tag that is not valid toggles the LED of an idle reader.
is_current_tag_new_and_valid_blink_unknown(rd, tag) ==
  IF rd.activated
    THEN [reader |-> set_led(rd, ~rd.led_enabled), ret |-> FALSE]
    ELSE IF tag.ndef
      THEN IF is_header_valid(tag)
             THEN [reader |-> [rd EXCEPT !.active_tag = CustomTextTag(tag)],
                   ret |-> TRUE]
             ELSE [reader |-> set_led(rd, ~rd.led_enabled), ret |-> FALSE]
      ELSE IF tag_id(tag) \in DOMAIN tag_dictionary
             THEN [reader |->
                     [rd EXCEPT !.active_tag =
                        HardCodedTag(tag, tag_dictionary[tag_id(tag)][1],
                                     tag_dictionary[tag_id(tag)][2],
                                     tag_dictionary[tag_id(tag)][3])],
                   ret |-> TRUE]
             ELSE [reader |-> set_led(rd, ~rd.led_enabled), ret |-> FALSE]

\* Result: the reader after the call and the returned truth value.
is_current_tag_new_and_valid(rd, tag) ==
  IF rd.activated
    THEN [reader |-> set_led(rd, ~rd.led_enabled), ret |-> FALSE]
    ELSE IF tag.ndef
      THEN IF is_header_valid(tag)
             THEN [reader |-> [rd EXCEPT !.active_tag = CustomTextTag(tag)],
                   ret |-> TRUE]
             ELSE [reader |-> rd, ret |-> FALSE]
      ELSE IF tag_id(tag) \in DOMAIN tag_dictionary
             THEN [reader |->
                     [rd EXCEPT !.active_tag =
                        HardCodedTag(tag, tag_dictionary[tag_id(tag)][1],
                                     tag_dictionary[tag_id(tag)][2],
                                     tag_dictionary[tag_id(tag)][3])],
                   ret |-> TRUE]
             ELSE [reader |-> rd, ret |-> FALSE]

\* Variant: the activated flag is not set.
pattern_activated_noop(rd) == rd

\* Variant: activation turns the LED off.
pattern_activated_led_off(rd) ==
  set_led([rd EXCEPT !.activated = TRUE], FALSE)

pattern_activated(rd) == [rd EXCEPT !.activated = TRUE]

\* Variant: the active tag is not cleared on removal.
tag_removed_keeps_tag(rd) ==
  set_led([rd EXCEPT !.activated = FALSE], TRUE)

tag_removed(rd) ==
  [set_led([rd EXCEPT !.activated = FALSE], TRUE) EXCEPT !.active_tag = NoneTag]

\* ----------------------------------------------------- ChromatikOcsClient
\* Outcomes of OscTcpClient.connect(): it returns True, returns False, or
\* raises.
ConnectOutcomes == {"ok", "fail", "raise"}

\* Outcomes of OscTcpClient.send_message(): it returns, or raises.
WriteOutcomes == {"ok", "raise"}

\* f"/channel/{reader_index}/pattern/{pattern_name}/enable"
Address(idx, pattern_name) ==
  <<"channel", idx, "pattern", pattern_name, "enable">>

\* The record of one call on the channel: what was asked, the connected flag
\* on entry, what the transport did ("none" when it was not invoked), whether
\* the message left (transmitted), the log line printed, the value returned
\* to the caller and whether an exception left the method (none does: every
\* transport call sits in a try block that catches Exception).
Call(op, address, value, was_connected, result, transmitted, log, ret) ==
  [op |-> op, address |-> address, value |-> value,
   was_connected |-> was_connected, result |-> result,
   attempted |-> (result # "none"), transmitted |-> transmitted,
   log |-> log, ret |-> ret, raised |-> FALSE]

\* Variant: the result of client.connect() is not stored.
connect_discarded(conn, o) ==
  [connected |-> FALSE,
   call |-> Call("connect", <<>>, "", conn, o, FALSE, "", "False")]

\* ChromatikOcsClient.connect: result is the new connected flag and the call.
connect(conn, o) ==
  [connected |-> (o = "ok"),
   call |-> Call("connect", <<>>, "", conn, o, FALSE, "",
                 IF o = "ok" THEN "True" ELSE "False")]

\* Variant: the connected flag is not consulted before writing.
tx_pattern_enable_blind(conn, idx, pattern_name, one_shot, w) ==
  IF w = "ok"
    THEN [connected |-> conn,
          call |-> Call("enable", Address(idx, pattern_name), "T\n", conn,
                        w, TRUE, "Sent msg", "None")]
    ELSE [connected |-> FALSE,
          call |-> Call("enable", Address(idx, pattern_name), "T\n", conn,
                        w, FALSE, "failed to send message", "None")]

tx_pattern_enable(conn, idx, pattern_name, one_shot, w) ==
  IF ~conn
    THEN [connected |-> conn,
          call |-> Call("enable", Address(idx, pattern_name), "T\n", conn,
                        "none", FALSE, "OSC port not open", "None")]
    ELSE IF w = "ok"
      THEN [connected |-> conn,
            call |-> Call("enable", Address(idx, pattern_name), "T\n", conn,
                          w, TRUE, "Sent msg", "None")]
      ELSE [connected |-> FALSE,
            call |-> Call("enable", Address(idx, pattern_name), "T\n", conn,
                          w, FALSE, "failed to send message", "None")]

\* Variant: a failed write leaves the connected flag set.
tx_pattern_disable_stays_connected(conn, idx, pattern_name, w) ==
  IF ~conn
    THEN [connected |-> conn,
          call |-> Call("disable", Address(idx, pattern_name), "F\n", conn,
                        "none", FALSE, "OSC port not open", "None")]
    ELSE IF w = "ok"
      THEN [connected |-> conn,
            call |-> Call("disable", Address(idx, pattern_name), "F\n", conn,
                          w, TRUE, "Sent msg", "None")]
      ELSE [connected |-> conn,
            call |-> Call("disable", Address(idx, pattern_name), "F\n", conn,
                          w, FALSE, "failed to send message", "None")]

\* Variant: the disable goes to a key of its own.
tx_pattern_disable_other_key(conn, idx, pattern_name, w) ==
  IF ~conn
    THEN [connected |-> conn,
          call |-> Call("disable",
                        <<"channel", idx, "pattern", pattern_name, "disable">>,
                        "F\n", conn, "none", FALSE, "OSC port not open",
                        "None")]
    ELSE IF w = "ok"
      THEN [connected |-> conn,
            call |-> Call("disable",
                          <<"channel", idx, "pattern", pattern_name, "disable">>,
                          "F\n", conn, w, TRUE, "Sent msg", "None")]
      ELSE [connected |-> FALSE,
            call |-> Call("disable",
                          <<"channel", idx, "pattern", pattern_name, "disable">>,
                          "F\n", conn, w, FALSE, "failed to send message",
                          "None")]

tx_pattern_disable(conn, idx, pattern_name, w) ==
  IF ~conn
    THEN [connected |-> conn,
          call |-> Call("disable", Address(idx, pattern_name), "F\n", conn,
                        "none", FALSE, "OSC port not open", "None")]
    ELSE IF w = "ok"
      THEN [connected |-> conn,
            call |-> Call("disable", Address(idx, pattern_name), "F\n", conn,
                          w, TRUE, "Sent msg", "None")]
      ELSE [connected |-> FALSE,
            call |-> Call("disable", Address(idx, pattern_name), "F\n", conn,
                          w, FALSE, "failed to send message", "None")]

\* ---------------------------------------------------------- NfcController
\* What one poll of a reader can yield: clf.connect returns None (no tag),
\* calls the on-connect callback with a tag and returns it, or fails
\* (raises, or returns False) without calling the callback.
PollResults ==
  { [kind |-> "None", tag |-> NoRawTag], [kind |-> "Fault", tag |-> NoRawTag] }
    \cup { [kind |-> "Tag", tag |-> t] : t \in Tags }

\* Variant: the reader is marked activated only when the enable left, so a
\* dropped enable is sent again at the next detection.
tag_detected_activate_if_sent(rs, idx, conn, tag, w) ==
  LET v == is_current_tag_new_and_valid(rs[idx], tag)
      tx == tx_pattern_enable(conn, idx, get_pattern(v.reader.active_tag),
                              is_one_shot(v.reader.active_tag), w)
  IN IF v.ret
       THEN [readers |->
               [rs EXCEPT ![idx] = IF tx.call.transmitted
                                     THEN pattern_activated(v.reader)
                                     ELSE v.reader],
             connected |-> tx.connected, calls |-> <<tx.call>>]
       ELSE [readers |-> [rs EXCEPT ![idx] = v.reader],
             connected |-> conn, calls |-> <<>>]

\* Variant: with the channel down the callback does nothing, so the tag is
\* taken as new again, and its pattern enabled, once the channel is back.
tag_detected_wait_for_channel(rs, idx, conn, tag, w) ==
  LET v == is_current_tag_new_and_valid(rs[idx], tag)
      tx == tx_pattern_enable(conn, idx, get_pattern(v.reader.active_tag),
                              is_one_shot(v.reader.active_tag), w)
  IN IF v.ret /\ conn
       THEN [readers |-> [rs EXCEPT ![idx] = pattern_activated(v.reader)],
             connected |-> tx.connected, calls |-> <<tx.call>>]
       ELSE [readers |-> IF v.ret THEN rs ELSE [rs EXCEPT ![idx] = v.reader],
             connected |-> conn, calls |-> <<>>]

\* NfcController.tag_detected, the on-connect callback, run for
\* readers[idx]: the readers, the connected flag and the calls made.
tag_detected(rs, idx, conn, tag, w) ==
  LET v == is_current_tag_new_and_valid(rs[idx], tag)
      tx == tx_pattern_enable(conn, idx, get_pattern(v.reader.active_tag),
                              is_one_shot(v.reader.active_tag), w)
  IN IF v.ret
       THEN [readers |-> [rs EXCEPT ![idx] = pattern_activated(v.reader)],
             connected |-> tx.connected, calls |-> <<tx.call>>]
       ELSE [readers |-> [rs EXCEPT ![idx] = v.reader],
             connected |-> conn, calls |-> <<>>]

\* Variant: the one-shot check before the disable is missing.
tag_absent_always_disable(rs, idx, conn, w) ==
  LET rd == rs[idx]
      tx == tx_pattern_disable(conn, idx, get_pattern(rd.active_tag), w)
  IN IF rd.activated
       THEN [readers |-> [rs EXCEPT ![idx] = tag_removed(rd)],
             connected |-> tx.connected, calls |-> <<tx.call>>]
       ELSE [readers |-> rs, connected |-> conn, calls |-> <<>>]

\* Variant: the reader is returned to idle only when its disable left.
tag_absent_keep_if_dropped(rs, idx, conn, w) ==
  LET rd == rs[idx]
      tx == tx_pattern_disable(conn, idx, get_pattern(rd.active_tag), w)
  IN IF rd.activated
       THEN IF ~is_one_shot(rd.active_tag)
              THEN [readers |->
                      [rs EXCEPT ![idx] = IF tx.call.transmitted
                                            THEN tag_removed(rd) ELSE rd],
                    connected |-> tx.connected, calls |-> <<tx.call>>]
              ELSE [readers |-> [rs EXCEPT ![idx] = tag_removed(rd)],
                    connected |-> conn, calls |-> <<>>]
       ELSE [readers |-> rs, connected |-> conn, calls |-> <<>>]

\* The branch of poll_readers taken when clf.connect returned None.
tag_absent(rs, idx, conn, w) ==
  LET rd == rs[idx]
      tx == tx_pattern_disable(conn, idx, get_pattern(rd.active_tag), w)
  IN IF rd.activated
       THEN IF ~is_one_shot(rd.active_tag)
              THEN [readers |-> [rs EXCEPT ![idx] = tag_removed(rd)],
                    connected |-> tx.connected, calls |-> <<tx.call>>]
              ELSE [readers |-> [rs EXCEPT ![idx] = tag_removed(rd)],
                    connected |-> conn, calls |-> <<>>]
       ELSE [readers |-> rs, connected |-> conn, calls |-> <<>>]

\* The body of the for loop of poll_readers for readers[idx], given what the
\* poll yields (p) and what a transport write would do (w).
poll_one(rs, idx, conn, p, w) ==
  CASE p.kind = "Tag" -> tag_detected(rs, idx, conn, p.tag, w)
    [] p.kind = "None" -> tag_absent(rs, idx, conn, w)
    [] OTHER -> [readers |-> rs, connected |-> conn, calls |-> <<>>]

\* The index the for loop of poll_readers gives the next reader.
next_index(idx) == idx + 1

\* NfcController.close_all.
close_all(rs) ==
  [i \in DOMAIN rs |-> set_led([rs[i] EXCEPT !.clf_open = FALSE], FALSE)]

\* ------------------------------------------------------------------ state
VARIABLES
  pc,            \* position of __main__: "startup" (the wait loop, args.quiet
                 \* false), "startup_quiet" (args.quiet true: no waiting),
                 \* "main" (line 338), "poll" (inside poll_readers), "closed"
                 \* (after close_all), "exited" (sys.exit with no reader)
  readers,       \* controller.readers: slot index -> NfcReader
  reader_index,  \* controller.reader_index
  sigint,        \* handler.sigint
  connected,     \* client.connected
  calls,         \* the calls made on the channel by the latest step
  last_poll,     \* what the latest step polled: slot index, poll result and
                 \* the reader as it was before the poll
  hist_last,     \* history: per slot, "Activate" while the latest non-ignored
                 \* transition is an Activate no removal has followed, else "None"
  polled_none,   \* history: per slot, a no-tag poll happened since the last enable
  enabled,       \* history: per slot, the address of the enable issued since
                 \* the slot's latest no-tag poll and the one-shot flag of the
                 \* trigger it was for
  last_chan,     \* history: "connect_ok" when the latest call on the channel
                 \* was a connect that succeeded, else "other"
  prev_chan,     \* history: last_chan as it was before the call the latest
                 \* step made, "none" when that step made no call
  tracking,      \* history: whether down_act is recorded (it is in the
                 \* specification of the activate-while-down scenario only)
  down_act       \* history: per slot, the key and one-shot flag of the Activate
                 \* made while the channel was down, until the slot's next
                 \* no-tag poll

vars == <<pc, readers, reader_index, sigint, connected, calls,
          last_poll, hist_last, polled_none, enabled, last_chan,
          prev_chan, tracking, down_act>>

Slots == 0..(MaxReaders - 1)

NoPoll == [reader |-> -1, kind |-> "NoPoll", tag |-> NoRawTag,
           before |-> NewReader, down |-> [address |-> << >>, one_shot |-> FALSE]]

NumReaders == Cardinality(DOMAIN readers)

\* How a call on the channel ended, for the history variable last_chan.
ChanEnd(c) ==
  IF c.op = "connect"
    THEN (IF c.ret = "True" THEN "connect_ok" ELSE "other")
    ELSE "other"

\* A tag the spec's classifier maps to a trigger: a payload with a valid
\* header, or else an identifier found in the registry.
IsKnown(tag) ==
  IF tag.ndef THEN tag.header_valid
  ELSE tag_id(tag) \in {<<"A", "1", "B", "2">>, <<"C", "3", "D", "4">>}

\* The trigger the spec's classifier gives a known tag: decoded from the
\* payload, or else the registry entry of the identifier.
SpecTrigger(tag) ==
  IF tag.ndef
    THEN [pattern |-> tag.text_pattern, one_shot |-> tag.text_one_shot]
    ELSE IF tag_id(tag) = <<"A", "1", "B", "2">>
      THEN [pattern |-> "fire", one_shot |-> FALSE]
      ELSE [pattern |-> "spark", one_shot |-> TRUE]

NoEnable == [address |-> << >>, one_shot |-> FALSE]

\* The history down_act of the slot being polled, after poll result p: a
\* known tag on a slot with no pending Activate, polled while the channel is
\* down, is an Activate made while down; a poll with no tag ends it.
DownStep(d, p) ==
  IF ~tracking THEN d
  ELSE IF p.kind = "None" THEN NoEnable
  ELSE IF p.kind = "Tag" /\ IsKnown(p.tag)
            /\ hist_last[reader_index] # "Activate" /\ ~connected
    THEN [address |-> <<"channel", reader_index, "pattern",
                        SpecTrigger(p.tag).pattern, "enable">>,
          one_shot |-> SpecTrigger(p.tag).one_shot]
    ELSE d

\* The history after a poll result, as the spec's state machine defines it: a
\* known tag on a slot with no pending Activate is an Activate, no tag is a
\* removal, all else (a tag on an active slot, an unknown tag, a failed poll)
\* is ignored.
HistStep(h, p) ==
  CASE p.kind = "Tag" /\ IsKnown(p.tag) /\ h # "Activate" -> "Activate"
    [] p.kind = "None" -> "None"
    [] OTHER -> h

\* The state after construction of the client: OscTcpClient may or may not
\* have connected; no reader is bound yet.
Init ==
  /\ pc \in {"startup", "startup_quiet"}
  /\ readers = << >>
  /\ reader_index = 0
  /\ sigint = FALSE
  /\ connected \in BOOLEAN
  /\ calls = << >>
  /\ last_poll = NoPoll
  /\ hist_last = [i \in Slots |-> "None"]
  /\ polled_none = [i \in Slots |-> TRUE]
  /\ enabled = [i \in Slots |-> NoEnable]
  /\ last_chan = "other"
  /\ prev_chan = "none"
  /\ tracking = FALSE
  /\ down_act = [i \in Slots |-> NoEnable]

\* __main__ lines 318-324: one turn of the wait loop.
WaitForServer(o) ==
  /\ pc = "startup"
  /\ ~connected
  /\ connected' = connect(connected, o).connected
  /\ calls' = <<connect(connected, o).call>>
  /\ last_chan' = ChanEnd(connect(connected, o).call)
  /\ prev_chan' = last_chan
  /\ UNCHANGED <<tracking, down_act>>
  /\ last_poll' = NoPoll
  /\ UNCHANGED <<pc, readers, reader_index, sigint, hist_last,
                 polled_none, enabled>>

\* __main__ lines 326-336: n readers answer discover_readers_from_config;
\* with none the process exits, otherwise the signal handler is installed.
DiscoverReaders(n) ==
  /\ pc = "startup_quiet" \/ (pc = "startup" /\ connected)
  /\ readers' = [i \in 0..(n - 1) |-> NewReader]
  /\ pc' = IF n = 0 THEN "exited" ELSE "main"
  /\ calls' = << >>
  /\ last_poll' = NoPoll
  /\ prev_chan' = "none"
  /\ UNCHANGED <<tracking, down_act>>
  /\ UNCHANGED <<reader_index, sigint, connected, hist_last,
                 polled_none, enabled, last_chan>>

\* Variant: no handler is installed, the signal ends the cycle where it is
\* and the readers are closed at once.
Signal_aborts ==
  /\ pc \in {"main", "poll"}
  /\ ~sigint
  /\ sigint' = TRUE
  /\ readers' = close_all(readers)
  /\ pc' = "closed"
  /\ calls' = << >>
  /\ last_poll' = NoPoll
  /\ prev_chan' = "none"
  /\ UNCHANGED <<tracking, down_act>>
  /\ UNCHANGED <<reader_index, connected, hist_last, polled_none, enabled,
                 last_chan>>

\* Sighandler.signal_handler: it only sets the flag.
Signal ==
  /\ pc \in {"main", "poll"}
  /\ ~sigint
  /\ sigint' = TRUE
  /\ calls' = << >>
  /\ last_poll' = NoPoll
  /\ UNCHANGED <<pc, readers, reader_index, connected, hist_last,
                 polled_none, enabled, last_chan>>
  /\ prev_chan' = "none"
  /\ UNCHANGED <<tracking, down_act>>

\* __main__ line 338 with the flag set, then line 344.
Shutdown ==
  /\ pc = "main"
  /\ sigint
  /\ readers' = close_all(readers)
  /\ pc' = "closed"
  /\ calls' = << >>
  /\ last_poll' = NoPoll
  /\ prev_chan' = "none"
  /\ UNCHANGED <<tracking, down_act>>
  /\ UNCHANGED <<reader_index, sigint, connected, hist_last,
                 polled_none, enabled, last_chan>>

\* poll_readers lines 269-271 raise OSError; __main__ lines 341-343.
PollAbort ==
  /\ pc = "main"
  /\ ~sigint
  /\ NumReaders < MinReaders
  /\ readers' = close_all(readers)
  /\ pc' = "closed"
  /\ calls' = << >>
  /\ last_poll' = NoPoll
  /\ prev_chan' = "none"
  /\ UNCHANGED <<tracking, down_act>>
  /\ UNCHANGED <<reader_index, sigint, connected, hist_last,
                 polled_none, enabled, last_chan>>

\* Variant: the check of the number of readers is missing.
PollBegin_unchecked ==
  /\ pc = "main"
  /\ ~sigint
  /\ reader_index' = 0
  /\ pc' = "poll"
  /\ calls' = << >>
  /\ last_poll' = NoPoll
  /\ prev_chan' = "none"
  /\ UNCHANGED <<tracking, down_act>>
  /\ UNCHANGED <<readers, sigint, connected, hist_last, polled_none,
                 enabled, last_chan>>

\* poll_readers line 273: a cycle starts.
PollBegin ==
  /\ pc = "main"
  /\ ~sigint
  /\ NumReaders >= MinReaders
  /\ reader_index' = 0
  /\ pc' = "poll"
  /\ calls' = << >>
  /\ last_poll' = NoPoll
  /\ UNCHANGED <<readers, sigint, connected, hist_last, polled_none,
                 enabled, last_chan>>
  /\ prev_chan' = "none"
  /\ UNCHANGED <<tracking, down_act>>

\* Variant: the for loop has no try block, so a failed poll leaves
\* poll_readers and __main__ closes the readers and quits.
PollReader_unguarded(p, w) ==
  /\ pc = "poll"
  /\ reader_index < NumReaders
  /\ LET r == poll_one(readers, reader_index, connected, p, w)
     IN /\ w # "ok" => (r.calls # << >> /\ r.calls[1].attempted)
        /\ readers' = IF p.kind = "Fault" THEN close_all(readers)
                      ELSE r.readers
        /\ connected' = r.connected
        /\ calls' = r.calls
        /\ last_chan' = IF r.calls = << >> THEN last_chan
                        ELSE ChanEnd(r.calls[1])
        /\ prev_chan' = IF r.calls = << >> THEN "none" ELSE last_chan
        /\ polled_none' =
             [polled_none EXCEPT ![reader_index] =
                IF p.kind = "None" THEN TRUE
                ELSE IF r.calls # << >> /\ r.calls[1].op = "enable" THEN FALSE
                ELSE @]
        /\ enabled' =
             [enabled EXCEPT ![reader_index] =
                IF p.kind = "None" THEN NoEnable
                ELSE IF r.calls # << >> /\ r.calls[1].op = "enable"
                  THEN [address |-> r.calls[1].address,
                        one_shot |-> SpecTrigger(p.tag).one_shot]
                  ELSE @]
  /\ hist_last' = [hist_last EXCEPT ![reader_index] = HistStep(@, p)]
  /\ last_poll' = [reader |-> reader_index, kind |-> p.kind, tag |-> p.tag,
                   before |-> readers[reader_index],
                   down |-> down_act[reader_index]]
  /\ down_act' = [down_act EXCEPT ![reader_index] = DownStep(@, p)]
  /\ UNCHANGED tracking
  /\ reader_index' = IF p.kind = "Fault" THEN reader_index
                     ELSE next_index(reader_index)
  /\ pc' = IF p.kind = "Fault" THEN "closed" ELSE pc
  /\ UNCHANGED sigint

\* poll_readers lines 274-294: one turn of the for loop. A write outcome other
\* than "ok" is an input only of a turn that writes to the transport.
PollReader(p, w) ==
  /\ pc = "poll"
  /\ reader_index < NumReaders
  /\ LET r == poll_one(readers, reader_index, connected, p, w)
     IN /\ w # "ok" => (r.calls # << >> /\ r.calls[1].attempted)
        /\ readers' = r.readers
        /\ connected' = r.connected
        /\ calls' = r.calls
        /\ last_chan' = IF r.calls = << >> THEN last_chan
                        ELSE ChanEnd(r.calls[1])
        /\ prev_chan' = IF r.calls = << >> THEN "none" ELSE last_chan
        /\ polled_none' =
             [polled_none EXCEPT ![reader_index] =
                IF p.kind = "None" THEN TRUE
                ELSE IF r.calls # << >> /\ r.calls[1].op = "enable" THEN FALSE
                ELSE @]
        /\ enabled' =
             [enabled EXCEPT ![reader_index] =
                IF p.kind = "None" THEN NoEnable
                ELSE IF r.calls # << >> /\ r.calls[1].op = "enable"
                  THEN [address |-> r.calls[1].address,
                        one_shot |-> SpecTrigger(p.tag).one_shot]
                  ELSE @]
  /\ hist_last' = [hist_last EXCEPT ![reader_index] = HistStep(@, p)]
  /\ last_poll' = [reader |-> reader_index, kind |-> p.kind, tag |-> p.tag,
                   before |-> readers[reader_index],
                   down |-> down_act[reader_index]]
  /\ down_act' = [down_act EXCEPT ![reader_index] = DownStep(@, p)]
  /\ UNCHANGED tracking
  /\ reader_index' = next_index(reader_index)
  /\ UNCHANGED <<pc, sigint>>

\* Variant: the connection is retried inside the for loop, as soon as the
\* channel is seen down.
Reconnect_early(o) ==
  /\ pc = "poll"
  /\ ~connected
  /\ connected' = connect(connected, o).connected
  /\ calls' = <<connect(connected, o).call>>
  /\ last_chan' = ChanEnd(connect(connected, o).call)
  /\ prev_chan' = last_chan
  /\ UNCHANGED <<tracking, down_act>>
  /\ pc' = IF reader_index >= NumReaders THEN "main" ELSE pc
  /\ last_poll' = NoPoll
  /\ UNCHANGED <<readers, reader_index, sigint, hist_last,
                 polled_none, enabled>>

\* poll_readers lines 296-303 with the channel down: one connection attempt.
Reconnect(o) ==
  /\ pc = "poll"
  /\ reader_index >= NumReaders
  /\ ~connected
  /\ connected' = connect(connected, o).connected
  /\ calls' = <<connect(connected, o).call>>
  /\ last_chan' = ChanEnd(connect(connected, o).call)
  /\ prev_chan' = last_chan
  /\ UNCHANGED <<tracking, down_act>>
  /\ pc' = "main"
  /\ last_poll' = NoPoll
  /\ UNCHANGED <<readers, reader_index, sigint, hist_last,
                 polled_none, enabled>>

\* poll_readers line 296 with the channel up: the cycle ends.
CycleDone ==
  /\ pc = "poll"
  /\ reader_index >= NumReaders
  /\ connected
  /\ pc' = "main"
  /\ calls' = << >>
  /\ last_poll' = NoPoll
  /\ UNCHANGED <<readers, reader_index, sigint, connected, hist_last,
                 polled_none, enabled, last_chan>>
  /\ prev_chan' = "none"
  /\ UNCHANGED <<tracking, down_act>>

Next ==
  \/ \E o \in ConnectOutcomes : WaitForServer(o)
  \/ \E n \in 0..MaxReaders : DiscoverReaders(n)
  \/ Signal
  \/ Shutdown
  \/ PollAbort
  \/ PollBegin
  \/ \E p \in PollResults, w \in WriteOutcomes : PollReader(p, w)
  \/ \E o \in ConnectOutcomes : Reconnect(o)
  \/ CycleDone

Spec == Init /\ [][Next]_vars

\* ------------------------------------------------- the channel on its own
\* ChromatikOcsClient as a component: its three methods called in any order
\* and in any connection state, as its contract allows.
PatternNames == {"fire", "spark"}

ChanConnect(o) ==
  /\ connected' = connect(connected, o).connected
  /\ calls' = <<connect(connected, o).call>>
  /\ last_chan' = ChanEnd(connect(connected, o).call)
  /\ prev_chan' = last_chan
  /\ UNCHANGED <<tracking, down_act>>
  /\ UNCHANGED <<pc, readers, reader_index, sigint, last_poll,
                 hist_last, polled_none, enabled>>

ChanEnable(idx, pattern_name, one_shot, w) ==
  /\ LET tx == tx_pattern_enable(connected, idx, pattern_name, one_shot, w)
     IN /\ connected' = tx.connected
        /\ calls' = <<tx.call>>
        /\ last_chan' = ChanEnd(tx.call)
  /\ prev_chan' = last_chan
  /\ UNCHANGED <<tracking, down_act>>
  /\ UNCHANGED <<pc, readers, reader_index, sigint, last_poll,
                 hist_last, polled_none, enabled>>

ChanDisable(idx, pattern_name, w) ==
  /\ LET tx == tx_pattern_disable(connected, idx, pattern_name, w)
     IN /\ connected' = tx.connected
        /\ calls' = <<tx.call>>
        /\ last_chan' = ChanEnd(tx.call)
  /\ prev_chan' = last_chan
  /\ UNCHANGED <<tracking, down_act>>
  /\ UNCHANGED <<pc, readers, reader_index, sigint, last_poll,
                 hist_last, polled_none, enabled>>

ChannelNext ==
  \/ \E o \in ConnectOutcomes : ChanConnect(o)
  \/ \E idx \in Slots, pn \in PatternNames, os \in BOOLEAN,
        w \in WriteOutcomes : ChanEnable(idx, pn, os, w)
  \/ \E idx \in Slots, pn \in PatternNames, w \in WriteOutcomes :
        ChanDisable(idx, pn, w)

ChannelSpec == Init /\ [][ChannelNext]_vars

\* ---------------------------------------------------------------------------
\* The program run with no signal and with tags of the non-one-shot pattern
\* "fire" and unknown tags only, recording for each slot the Activate made
\* while the channel was down.

ScenarioPollResults ==
  {q \in PollResults :
     q.kind = "Tag" =>
       /\ ~q.tag.ndef
       /\ tag_id(q.tag) \in {<<"A", "1", "B", "2">>, <<"F", "F", "F", "F">>}}

ScenarioInit ==
  /\ pc \in {"startup", "startup_quiet"}
  /\ readers = << >>
  /\ reader_index = 0
  /\ sigint = FALSE
  /\ connected \in BOOLEAN
  /\ calls = << >>
  /\ last_poll = NoPoll
  /\ hist_last = [i \in Slots |-> "None"]
  /\ polled_none = [i \in Slots |-> TRUE]
  /\ enabled = [i \in Slots |-> NoEnable]
  /\ last_chan = "other"
  /\ prev_chan = "none"
  /\ tracking = TRUE
  /\ down_act = [i \in Slots |-> NoEnable]

ScenarioNext ==
  \/ \E o \in ConnectOutcomes : WaitForServer(o)
  \/ \E n \in 0..MaxReaders : DiscoverReaders(n)
  \/ PollAbort
  \/ PollBegin
  \/ \E p \in ScenarioPollResults, w \in WriteOutcomes : PollReader(p, w)
  \/ \E o \in ConnectOutcomes : Reconnect(o)
  \/ CycleDone

ScenarioSpec == ScenarioInit /\ [][ScenarioNext]_vars

\* ----------------------------------------------------------------- claims
\* The slot the latest step polled, when it polled one.
Polled == last_poll.kind # "NoPoll"

SendOps == {"enable", "disable"}

\* C1: after each poll step, every reader's activated flag is true exactly
\* when the latest non-ignored transition of that reader is an Activate (a
\* known tag presented while idle) that no removal (a poll returning no tag)
\* has followed.
C1_ActivatedIffPendingActivate ==
  \A i \in DOMAIN readers :
    readers[i].activated <=> (hist_last[i] = "Activate")

\* C1 witness: a tag was presented to a reader that was already active and
\* the presentation was ignored.
C1_Witness ==
  /\ last_poll.kind = "Tag"
  /\ last_poll.before.activated
  /\ readers[last_poll.reader].activated
  /\ hist_last[last_poll.reader] = "Activate"

\* C2: no disable is ever issued for a reader whose active trigger is
\* one-shot, whatever the poll result and the connection state; when the
\* poll returns no tag the reader is idle afterwards.
C2_OneShotNeverDisabled ==
  /\ (Polled /\ last_poll.before.activated
        /\ is_one_shot(last_poll.before.active_tag))
       => /\ \A k \in 1..Len(calls) : calls[k].op # "disable"
          /\ last_poll.kind = "None"
               => /\ ~readers[last_poll.reader].activated
                  /\ readers[last_poll.reader].active_tag = NoneTag
  /\ \A k \in 1..Len(calls) :
       calls[k].op = "disable"
         => /\ last_poll.kind = "None"
            /\ ~is_one_shot(last_poll.before.active_tag)

\* C2 witness: the tag of a one-shot trigger was removed, no call was made
\* and the reader is idle.
C2_Witness ==
  /\ last_poll.kind = "None"
  /\ last_poll.before.activated
  /\ is_one_shot(last_poll.before.active_tag)
  /\ calls = << >>
  /\ ~readers[last_poll.reader].activated

\* C3: a tag presented to a reader that is active produces no enable and
\* leaves the reader as it was but for its LED; and a step issues an enable
\* for a reader only if that reader was polled with no tag since the
\* previous enable issued for it.
C3_NoSecondActivate ==
  [][ last_poll'.kind # "NoPoll" =>
        LET i == last_poll'.reader
        IN /\ (readers[i].activated /\ last_poll'.kind = "Tag")
                => /\ calls' = << >>
                   /\ readers'[i].activated
                   /\ readers'[i].active_tag = readers[i].active_tag
           /\ (\E k \in 1..Len(calls') : calls'[k].op = "enable")
                => polled_none[i] ]_vars

\* C3 witness: a known tag was presented to an active reader and no call
\* was made.
C3_Witness ==
  /\ last_poll.kind = "Tag"
  /\ IsKnown(last_poll.tag)
  /\ last_poll.before.activated
  /\ calls = << >>
  /\ readers[last_poll.reader].activated

\* C4: with the channel connected before and after the step, a known
\* non-one-shot tag presented to an idle reader at slot i sends exactly one
\* enable keyed by (i, pattern name); and a poll returning no tag at a slot
\* activated by a non-one-shot trigger sends exactly one disable with the key
\* of that slot's enable.
C4_EnableThenDisableSameKey ==
  [][ (last_poll'.kind # "NoPoll" /\ connected /\ connected') =>
        LET i == last_poll'.reader
            t == last_poll'.tag
        IN /\ (last_poll'.kind = "Tag" /\ ~readers[i].activated
                 /\ IsKnown(t) /\ ~SpecTrigger(t).one_shot)
                => /\ Len(calls') = 1
                   /\ calls'[1].op = "enable"
                   /\ calls'[1].transmitted
                   /\ calls'[1].value = "T\n"
                   /\ calls'[1].address =
                        <<"channel", i, "pattern", SpecTrigger(t).pattern,
                          "enable">>
           /\ (last_poll'.kind = "None" /\ hist_last[i] = "Activate"
                 /\ enabled[i] # NoEnable /\ ~enabled[i].one_shot)
                => /\ Len(calls') = 1
                   /\ calls'[1].op = "disable"
                   /\ calls'[1].transmitted
                   /\ calls'[1].value = "F\n"
                   /\ calls'[1].address = enabled[i].address ]_vars

\* C4 witness: a disable was transmitted for a slot other than the first,
\* after a tag was removed from it.
C4_Witness ==
  /\ last_poll.kind = "None"
  /\ last_poll.reader >= 1
  /\ Len(calls) = 1
  /\ calls[1].op = "disable"
  /\ calls[1].transmitted
  /\ calls[1].address = <<"channel", last_poll.reader, "pattern", "fire",
                          "enable">>

\* C5: a tag that is neither in the registry nor carries a valid header,
\* presented to an idle reader, sends no command and leaves the reader idle
\* with no active trigger.
C5_UnknownTagIgnored ==
  (last_poll.kind = "Tag" /\ ~last_poll.before.activated
     /\ ~IsKnown(last_poll.tag))
    => /\ calls = << >>
       /\ ~readers[last_poll.reader].activated
       /\ readers[last_poll.reader].active_tag = NoneTag

\* C5 witness: the unmapped identifier FFFF was presented to an idle reader.
C5_Witness ==
  /\ last_poll.kind = "Tag"
  /\ ~last_poll.before.activated
  /\ last_poll.tag.identifier = <<255, 255>>
  /\ ~readers[last_poll.reader].activated

\* The values by which a send could tell its caller that it failed.
FailureValues == {"False", "failed"}

\* C6 as stated: an enable or disable called while the channel is
\* disconnected reports failure to its caller, does not throw, does not
\* invoke the transport, transmits nothing and leaves the channel
\* disconnected.
C6_SendWhileDisconnectedReportsFailure ==
  \A k \in 1..Len(calls) :
    (calls[k].op \in SendOps /\ ~calls[k].was_connected)
      => /\ calls[k].ret \in FailureValues
         /\ ~calls[k].raised
         /\ ~calls[k].attempted
         /\ ~calls[k].transmitted
         /\ ~connected

\* C6 amended: an enable or disable called while the channel is disconnected
\* returns nothing (None, as a send that succeeded does) and reports the
\* failure on the log only; it does not throw, does not invoke the
\* transport, transmits nothing and leaves the channel disconnected.
C6_SendWhileDisconnectedIsDropped ==
  \A k \in 1..Len(calls) :
    (calls[k].op \in SendOps /\ ~calls[k].was_connected)
      => /\ calls[k].ret = "None"
         /\ calls[k].log = "OSC port not open"
         /\ ~calls[k].raised
         /\ ~calls[k].attempted
         /\ ~calls[k].transmitted
         /\ ~connected

\* C6 witness: an enable was called while the channel was disconnected.
C6_Witness ==
  /\ Len(calls) = 1
  /\ calls[1].op = "enable"
  /\ ~calls[1].was_connected
  /\ ~connected

\* C7: a send made while connected whose transport write fails leaves the
\* channel disconnected, throws nothing and the poll loop goes on; a send
\* whose write succeeds leaves the channel connected.
C7_FailedSendDisconnects ==
  \A k \in 1..Len(calls) :
    (calls[k].op \in SendOps /\ calls[k].was_connected)
      => /\ calls[k].result = "raise"
              => (~connected /\ ~calls[k].raised /\ ~calls[k].transmitted
                    /\ pc = "poll")
         /\ calls[k].result = "ok" => (connected /\ calls[k].transmitted)
         /\ calls[k].result \in {"raise", "ok"}

\* C7 witness: the write of a disable failed and the channel is now
\* disconnected.
C7_Witness ==
  /\ Len(calls) = 1
  /\ calls[1].op = "disable"
  /\ calls[1].was_connected
  /\ calls[1].result = "raise"
  /\ ~connected

\* C8: a step transmits an enable for a slot only when it polled a tag on
\* that slot and no enable, sent or dropped, was issued for the slot since
\* its latest no-tag poll; it transmits a disable only when it polled no tag
\* on that slot and an enable was issued for the slot since the no-tag poll
\* before; and a step that calls connect makes no other call, transmits
\* nothing and changes no reader.
C8_NoRetryNoResend ==
  [][ /\ \A k \in 1..Len(calls') :
           calls'[k].transmitted
             => /\ last_poll'.kind # "NoPoll"
                /\ calls'[k].address[2] = last_poll'.reader
                /\ calls'[k].op = "enable"
                     => (last_poll'.kind = "Tag"
                           /\ polled_none[last_poll'.reader])
                /\ calls'[k].op = "disable"
                     => (last_poll'.kind = "None"
                           /\ enabled[last_poll'.reader] # NoEnable)
      /\ (\E k \in 1..Len(calls') : calls'[k].op = "connect")
           => /\ Len(calls') = 1
              /\ ~calls'[1].transmitted
              /\ readers' = readers
      /\ Len(calls') <= 1 ]_vars

\* C8 witness: the end-of-cycle connect succeeded while a reader was active,
\* and nothing was transmitted.
C8_Witness ==
  /\ Len(calls) = 1
  /\ calls[1].op = "connect"
  /\ calls[1].ret = "True"
  /\ pc = "main"
  /\ \E i \in DOMAIN readers : readers[i].activated

\* C9: connect returns true and leaves the channel connected when the
\* attempt succeeds, returns false and leaves it disconnected when the
\* attempt fails or raises; and the send that follows a successful connect
\* is not dropped as not connected: it is handed to the transport, and is
\* transmitted when that write succeeds.
C9_ConnectOutcomeDecides ==
  \A k \in 1..Len(calls) :
    /\ calls[k].op = "connect"
         => /\ calls[k].result = "ok"
                 => (calls[k].ret = "True" /\ connected)
            /\ calls[k].result # "ok"
                 => (calls[k].ret = "False" /\ ~connected)
    /\ (calls[k].op \in SendOps /\ prev_chan = "connect_ok")
         => /\ calls[k].was_connected
            /\ calls[k].attempted
            /\ calls[k].log # "OSC port not open"
            /\ calls[k].result = "ok" => calls[k].transmitted

\* C9 witness: the first send after a successful connect was transmitted.
C9_Witness ==
  /\ Len(calls) = 1
  /\ calls[1].op \in SendOps
  /\ prev_chan = "connect_ok"
  /\ calls[1].transmitted

\* C10 as stated: connect called while the channel is connected leaves it
\* connected, returns true and makes no connection attempt.
C10_ConnectWhileConnectedIsNoOp ==
  \A k \in 1..Len(calls) :
    (calls[k].op = "connect" /\ calls[k].was_connected)
      => /\ connected
         /\ calls[k].ret = "True"
         /\ ~calls[k].attempted

\* C11: inside poll_readers connect is called only once every slot of the
\* cycle has been processed and only with the channel down; a turn of the for
\* loop never calls it; and the step that ends the cycle calls it exactly
\* once when the channel is down at that point and not at all when it is up.
C11_ReconnectOnlyAtEndOfCycle ==
  [][ /\ (pc = "poll" /\ \E k \in 1..Len(calls') : calls'[k].op = "connect")
           => /\ reader_index >= NumReaders
              /\ ~connected
              /\ pc' = "main"
      /\ (pc = "poll" /\ pc' = "poll" /\ last_poll'.kind # "NoPoll")
           => \A k \in 1..Len(calls') : calls'[k].op # "connect"
      /\ (pc = "poll" /\ pc' = "main")
           => /\ reader_index >= NumReaders
              /\ connected => calls' = << >>
              /\ ~connected => (Len(calls') = 1 /\ calls'[1].op = "connect") ]_vars

\* C11 witness: a cycle over at least three slots ended with one connect.
C11_Witness ==
  /\ pc = "main"
  /\ NumReaders >= MinReaders
  /\ reader_index = NumReaders
  /\ Len(calls) = 1
  /\ calls[1].op = "connect"
  /\ ~calls[1].was_connected

\* C12: a non-one-shot trigger activated on a reader while the channel is
\* down is never followed by a transmitted Activate for that presentation: the
\* activating call is dropped and, while the tag stays, the reader makes no
\* call at all, whatever the channel does. When the tag is then removed with
\* the channel connected again and the write going through, the removal
\* transmits exactly one call, the Deactivate of that reader and pattern, and
\* the reader is idle afterwards.
C12_DownActivationOnlyDeactivates ==
  [][ Polled' =>
        LET i == last_poll'.reader
            d == last_poll'.down
        IN /\ down_act'[i] # NoEnable =>
                \A k \in 1..Len(calls') : ~calls'[k].transmitted
           /\ (d # NoEnable /\ last_poll'.kind = "Tag") => calls' = << >>
           /\ (d # NoEnable /\ ~d.one_shot /\ last_poll'.kind = "None"
                 /\ connected /\ connected') =>
                /\ Len(calls') = 1
                /\ calls'[1].op = "disable"
                /\ calls'[1].transmitted
                /\ calls'[1].address = d.address
                /\ ~readers'[i].activated
                /\ down_act'[i] = NoEnable ]_vars

\* C12 witness: reader 2's tag, activated while the channel was down, has
\* just been removed with the channel up, and its Deactivate was transmitted.
C12_Witness ==
  /\ last_poll.kind = "None"
  /\ last_poll.reader = 2
  /\ last_poll.down # NoEnable
  /\ ~last_poll.down.one_shot
  /\ connected
  /\ Len(calls) = 1
  /\ calls[1].op = "disable"
  /\ calls[1].transmitted
  /\ calls[1].address = last_poll.down.address

\* C13: in every state between steps, each reader's active tag is set
\* exactly when the reader is activated.
C13_ActiveTagIffActivated ==
  \A i \in DOMAIN readers :
    (readers[i].active_tag # NoneTag) <=> readers[i].activated

\* C13 witness: a poll step has just activated a reader and its tag is set.
C13_Witness ==
  /\ last_poll.kind = "Tag"
  /\ ~last_poll.before.activated
  /\ readers[last_poll.reader].activated
  /\ readers[last_poll.reader].active_tag # NoneTag

\* C14 as stated: after the shutdown that follows a stop signal every reader
\* is idle with no active tag, its LED is off and its device closed, and the
\* shutdown step issued a disable for every slot that was active with a
\* trigger that is not one-shot.
C14_ShutdownDeactivates ==
  (pc = "closed" /\ sigint)
    => \A i \in DOMAIN readers :
         /\ ~readers[i].activated
         /\ readers[i].active_tag = NoneTag
         /\ ~readers[i].led_enabled
         /\ ~readers[i].clf_open
         /\ (hist_last[i] = "Activate" /\ ~enabled[i].one_shot)
              => \E k \in 1..Len(calls) :
                   /\ calls[k].op = "disable"
                   /\ calls[k].address = enabled[i].address

\* C15: the signal handler changes nothing but the flag; with the flag set
\* a cycle under way goes on (the only steps are turns of the for loop, each
\* advancing to the next slot, and then the end-of-cycle connection check,
\* which is reached only after the last slot); the readers are closed only
\* from the head of the main loop; and no cycle starts once the flag is set.
C15_SignalLetsCycleFinish ==
  [][ /\ (~sigint /\ sigint')
           => (pc' = pc /\ readers' = readers /\ connected' = connected
                 /\ reader_index' = reader_index)
      /\ (sigint /\ pc = "poll")
           => /\ pc' \in {"poll", "main"}
              /\ \A i \in DOMAIN readers : readers'[i].clf_open
              /\ pc' = "poll" => reader_index' = reader_index + 1
              /\ pc' = "main"
                   => /\ reader_index >= NumReaders
                      /\ ~connected
                           => (Len(calls') = 1 /\ calls'[1].op = "connect")
      /\ pc' = "closed" => pc = "main"
      /\ (sigint /\ pc = "main") => pc' = "closed" ]_vars

\* C15 witness: a slot other than the first was polled after the flag was
\* set.
C15_Witness ==
  /\ sigint
  /\ pc = "poll"
  /\ last_poll.kind # "NoPoll"
  /\ last_poll.reader >= 1

\* C16: with fewer than three readers bound, once discovery is over no
\* reader is ever polled and no call is made on the channel, the only step
\* is the one that closes every bound reader and ends the process.
C16_TooFewReadersAbort ==
  (pc \in {"main", "poll", "closed"} /\ NumReaders < MinReaders)
    => /\ pc # "poll"
       /\ last_poll = NoPoll
       /\ calls = << >>
       /\ \A i \in DOMAIN readers :
            /\ ~readers[i].activated
            /\ pc = "closed" => ~readers[i].clf_open

\* C16 witness: two readers were bound and the process closed them without
\* a stop signal.
C16_Witness ==
  /\ pc = "closed"
  /\ NumReaders = 2
  /\ ~sigint
  /\ \A i \in DOMAIN readers : ~readers[i].clf_open

\* C17: a turn of the for loop whose poll fails or whose send fails stays
\* inside the cycle, closes no reader and advances to the next slot; and
\* every command a turn emits carries the index of the slot it polled.
C17_FaultsStayLocal ==
  [][ last_poll'.kind # "NoPoll" =>
        /\ last_poll'.reader = reader_index
        /\ \A k \in 1..Len(calls') : calls'[k].address[2] = reader_index
        /\ (last_poll'.kind = "Fault"
              \/ \E k \in 1..Len(calls') : calls'[k].result = "raise")
             => /\ pc' = "poll"
                /\ reader_index' = reader_index + 1
                /\ \A i \in DOMAIN readers : readers'[i].clf_open
        /\ last_poll'.kind = "Fault" => readers' = readers ]_vars

\* C17 witness: the poll of the first slot failed and the cycle is at the
\* second slot.
C17_Witness ==
  /\ last_poll.kind = "Fault"
  /\ last_poll.reader = 0
  /\ pc = "poll"
  /\ reader_index = 1

\* C18: what a turn of the for loop does to the readers depends on the poll
\* result alone, not on the connected flag or on what the transport does
\* with a write: the readers after the turn are those the same poll result
\* gives under every connection state and write outcome. In particular a
\* known tag on an idle reader activates it and a poll with no tag leaves the
\* reader idle, whether or not a command left.
C18_ReaderStateIgnoresChannel ==
  [][ last_poll'.kind # "NoPoll" =>
        LET i == last_poll'.reader
            p == [kind |-> last_poll'.kind, tag |-> last_poll'.tag]
        IN /\ \A c \in BOOLEAN, w \in WriteOutcomes :
                poll_one(readers, reader_index, c, p, w).readers = readers'
           /\ (p.kind = "Tag" /\ IsKnown(p.tag) /\ ~readers[i].activated)
                => (readers'[i].activated
                      /\ get_pattern(readers'[i].active_tag)
                           = SpecTrigger(p.tag).pattern)
           /\ p.kind = "None"
                => (~readers'[i].activated
                      /\ readers'[i].active_tag = NoneTag) ]_vars

\* C18 witness: an enable was dropped and the reader is activated all the
\* same.
C18_Witness ==
  /\ last_poll.kind = "Tag"
  /\ Len(calls) = 1
  /\ calls[1].op = "enable"
  /\ ~calls[1].transmitted
  /\ readers[last_poll.reader].activated

\* C19 as stated: after the poll step in which a known tag activates an idle
\* reader, that reader's LED is off.
C19_ActivationTurnsLedOff ==
  (last_poll.kind = "Tag" /\ IsKnown(last_poll.tag)
     /\ ~last_poll.before.activated)
    => /\ readers[last_poll.reader].activated
       /\ ~readers[last_poll.reader].led_enabled

\* C19 amended: after the poll step in which a known tag activates an idle
\* reader, that reader's LED is as it was before the step, which is on.
C19_ActivationLeavesLedOn ==
  (last_poll.kind = "Tag" /\ IsKnown(last_poll.tag)
     /\ ~last_poll.before.activated)
    => /\ readers[last_poll.reader].activated
       /\ readers[last_poll.reader].led_enabled = last_poll.before.led_enabled
       /\ readers[last_poll.reader].led_enabled

\* C19 witness: a known tag has just activated an idle reader.
C19_Witness ==
  /\ last_poll.kind = "Tag"
  /\ IsKnown(last_poll.tag)
  /\ ~last_poll.before.activated
  /\ readers[last_poll.reader].activated
  /\ Len(calls) = 1

\* C20 as stated: after the poll step in which an unknown tag is presented
\* to an idle reader, the reader's LED is the negation of what it was, the
\* reader is still idle and no call was made.
C20_UnknownTagTogglesLed ==
  (last_poll.kind = "Tag" /\ ~IsKnown(last_poll.tag)
     /\ ~last_poll.before.activated)
    => /\ readers[last_poll.reader].led_enabled
            = ~last_poll.before.led_enabled
       /\ ~readers[last_poll.reader].activated
       /\ calls = << >>

\* C20 amended: after the poll step in which an unknown tag is presented to
\* an idle reader, the reader is exactly as it was before (its LED is not
\* toggled and stays on, it is still idle) and no call was made.
C20_UnknownTagLeavesLed ==
  (last_poll.kind = "Tag" /\ ~IsKnown(last_poll.tag)
     /\ ~last_poll.before.activated)
    => /\ readers[last_poll.reader] = last_poll.before
       /\ readers[last_poll.reader].led_enabled
       /\ ~readers[last_poll.reader].activated
       /\ calls = << >>

\* C20 witness: a tag with an invalid NDEF header was presented to an idle
\* reader.
C20_Witness ==
  /\ last_poll.kind = "Tag"
  /\ last_poll.tag.ndef
  /\ ~last_poll.tag.header_valid
  /\ ~last_poll.before.activated
  /\ readers[last_poll.reader].led_enabled

====
